---- MODULE Spec2Model ----
(***************************************************************************)
(* Export pipeline of the VideoExportModal component (startExport,         *)
(* cancelExport, the MediaRecorder callbacks and the setTimeout-driven     *)
(* animate loop), modelled as tasks of the browser event loop.  Every      *)
(* action is one task: a click handler, a promise continuation, a timer    *)
(* callback or a MediaRecorder event task.  Further sections model the     *)
(* numeric safety library, the renderer state stores with the bar and      *)
(* burst variants, and the live frame scheduler of VisualizerCanvas, each  *)
(* under a specification of its own over the same initial state.           *)
(***************************************************************************)
EXTENDS Integers, Naturals, Sequences, FiniteSets, TLC

\* ---- bounds ----
MaxRuns == 2        \* startExport invocations that pass validation
TotalDuration == 2  \* totalDuration, in units of one nominal timer period
MaxDelay == 2       \* largest wall-clock gap between two animate calls
MaxChunks == 2      \* recorded chunks kept in chunksRef.current
BarCount == 2       \* slots of the bar variant (barCount)
DataLen == 2        \* frequency bins of a spectrum (data.length)
MaxByte == 20       \* loudest bin value fed to the bar variant
BurstSize == 1      \* particles pushed by one burst (particleCount)
MaxPool == 2        \* particles in a pool
MaxReplay == 3      \* ticks of a replay
MaxHandles == 4     \* animation-frame handles the browser issues
MaxWidth == 4       \* widest drawing surface of the pulse-trace variant
MaxEcgTime == 30    \* latest time value handed to the pulse-trace variant
ZoomUnits == 100    \* resolution of the spring zoom: model units per 1.0
MaxLoudTicks == 3   \* ticks of the burst variant above the energy floor that are followed

Runs == 1 .. MaxRuns
NoRun == 0

VARIABLES
  exportStatus,      \* useState: "idle" | "recording" | "processing" | "done" | "error"
  isExporting,       \* useState
  progress,          \* useState, percent
  errorMessage,      \* useState
  chunksRef,         \* chunksRef.current: sequence of chunks, each tagged with the run that recorded it
  mediaRecorderRef,  \* mediaRecorderRef.current: the run whose recorder it holds, NoRun = null
  animationFrameRef, \* animationFrameRef.current: the run whose timer id it holds, NoRun = undefined
  exportCanvasRef,   \* exportCanvasRef.current: the run whose offscreen canvas it holds
  audio,             \* the audio element: "paused" | "starting" (play() pending) | "playing"
  pc,                \* position of each startExport invocation
  startStatus,       \* exportStatus as captured by the closure of each invocation
  recState,          \* MediaRecorder.state of each run's recorder ("none" before construction)
  stopTask,          \* the task queued by MediaRecorder.stop() (dataavailable, then stop) is pending
  animPending,       \* the run's setTimeout(animate, 16) is pending
  finTimer,          \* the run's setTimeout(..., 500) of onstop is pending
  elapsed,           \* elapsed handed to the renderer at the run's latest animate call
  downloaded,        \* per run: its finalization built the Blob and clicked the download link
  nextRun,           \* next run identifier
  cancelled,         \* history: runs that were in flight when cancelExport was invoked
  safeCall,          \* the latest call of a numeric-safety function: its name, arguments and result
  analyserData,      \* the current spectrum: one byte per frequency bin
  liveState,         \* the live renderer's store: particlesRef.current, barCapsRef.current
  visualizerState,   \* the export run's store: <<>> before the first run, else <<the latest run's store>>
  exportRuns,        \* export runs that constructed a store so far
  exportActive,      \* the latest export run is still drawing frames
  replay,            \* two stores that are fed the same spectrum sequence
  replayTicks,       \* ticks replayed so far
  mounted,           \* the animation effect of VisualizerCanvas is active
  type,              \* the selected variant
  animationRef,      \* animationRef.current of VisualizerCanvas: a handle, 0 = undefined
  rafPending,        \* requested animation-frame callbacks: handle, requesting effect run, its variant
  timeRef,           \* timeRef.current: the tick counter
  nextHandle,        \* the handle the next requestAnimationFrame returns
  effectRun,         \* runs of the animation effect so far; the latest is the active loop
  ticksInRefresh,    \* history: animate calls since the latest display refresh began
  drawsInRefresh,    \* history: renderer invocations since the latest display refresh began
  visualizerType,    \* the variant selected in the audio context
  liveDrawn,         \* the draw function the latest live frame invoked, "none" if it found none
  exportDrawn,       \* the case the latest export frame executed in drawVisualizerByType
  switched,          \* history: the variant was changed since the latest live frame
  avatarImageRef,    \* avatarImageRef.current of the live canvas: "null" or "img"
  avatarLoadedRef,   \* avatarLoadedRef.current
  avatarImg,         \* the export run's avatarImg: "null", or an image that is "loading", "loaded" or "broken"
  avatarDraw,        \* the latest call of drawCenterAvatar: caller, radius used, what it painted, how it ended
  ecgDriver,         \* who drives the pulse-trace store: "none" yet, "live" or "export"
  ecgBuffer,         \* the trace buffer (ecgBufferRef.current / state.ecgBuffer), held as its length
  ecgState,          \* ecgStateRef.current / state.ecgState: x, lastBeat, pulseIndex
  ecgTime,           \* the time of the latest tick: timeRef.current (live), elapsed in 0.1 s (export)
  coreZoom,          \* coreZoomRef.current / state.coreZoom, in 1/ZoomUnits
  coreVelocity,      \* coreVelocityRef.current / state.coreVelocity, in 1/ZoomUnits
  quietRun,          \* history: ticks of the burst variant since the spectrum went quiet, whether the pool held particles then, and the loud ticks so far
  ecgTick            \* the latest tick: its width and bass energy, buffer length and cursor before it, the indices it wrote

vars == <<exportStatus, isExporting, progress, errorMessage, chunksRef,
          mediaRecorderRef, animationFrameRef, exportCanvasRef, audio, pc,
          startStatus, recState, stopTask, animPending, finTimer, elapsed,
          downloaded, nextRun, cancelled>>

\* the state outside the export pipeline (numeric library, renderers, live scheduler)
safeVars == <<safeCall>>
storeVars == <<analyserData, liveState, visualizerState, exportRuns, exportActive>>
replayVars == <<replay, replayTicks>>
liveVars == <<mounted, type, animationRef, rafPending, timeRef, nextHandle, effectRun,
              ticksInRefresh, drawsInRefresh>>
variantVars == <<visualizerType, liveDrawn, exportDrawn, switched>>
avatarVars == <<avatarImageRef, avatarLoadedRef, avatarImg, avatarDraw>>
ecgVars == <<ecgDriver, ecgBuffer, ecgState, ecgTime, ecgTick>>
vortexVars == <<coreZoom, coreVelocity>>
burstVars == <<quietRun>>
renderVars == <<safeVars, storeVars, replayVars, liveVars, variantVars, avatarVars, ecgVars,
                vortexVars, burstVars>>

Statuses == {"idle", "recording", "processing", "done", "error"}

Min(a, b) == IF a < b THEN a ELSE b

\* Math.min(elapsed / totalDuration, 1) * 100
ProgressOf(e) == (Min(e, TotalDuration) * 100) \div TotalDuration

ValidSelection_TrackOnly(track, audioEl) == track

\* !currentTrack || !audioRef.current  (negated)
ValidSelection(track, audioEl) == track /\ audioEl

\* runs whose startExport invocation is in flight or whose recording is not yet finalized
InFlight(r) == pc[r] \in {"avatarWait", "playWait", "playAborted", "running"}

Init ==
  /\ exportStatus = "idle"
  /\ isExporting = FALSE
  /\ progress = 0
  /\ errorMessage = ""
  /\ chunksRef = <<>>
  /\ mediaRecorderRef = NoRun
  /\ animationFrameRef = NoRun
  /\ exportCanvasRef = NoRun
  /\ audio = "paused"
  /\ pc = [r \in Runs |-> "none"]
  /\ startStatus = [r \in Runs |-> "idle"]
  /\ recState = [r \in Runs |-> "none"]
  /\ stopTask = [r \in Runs |-> FALSE]
  /\ animPending = [r \in Runs |-> FALSE]
  /\ finTimer = [r \in Runs |-> FALSE]
  /\ elapsed = [r \in Runs |-> 0]
  /\ downloaded = [r \in Runs |-> FALSE]
  /\ nextRun = 1
  /\ cancelled = {}
  /\ safeCall = [fn |-> "none", args |-> <<>>, out |-> [k |-> "none", v |-> 0]]
  /\ analyserData = [i \in 1 .. DataLen |-> 0]
  /\ liveState = [particles |-> <<>>, barCaps |-> <<>>]
  /\ visualizerState = <<>>
  /\ exportRuns = 0
  /\ exportActive = FALSE
  /\ replay = <<[particles |-> <<>>, barCaps |-> <<>>], [particles |-> <<>>, barCaps |-> <<>>]>>
  /\ replayTicks = 0
  /\ mounted = FALSE
  /\ type = "bars"
  /\ animationRef = 0
  /\ rafPending = {}
  /\ timeRef = 0
  /\ nextHandle = 1
  /\ effectRun = 0
  /\ ticksInRefresh = 0
  /\ drawsInRefresh = 0
  /\ visualizerType = "bars"
  /\ liveDrawn = "none"
  /\ exportDrawn = "none"
  /\ switched = FALSE
  /\ ecgDriver = "none"
  /\ ecgBuffer = 0
  /\ ecgState = [x |-> 0, lastBeat |-> 0, pulseIndex |-> -1]
  /\ ecgTime = 0
  /\ ecgTick = [width |-> 0, bass |-> 0, lenBefore |-> 0, xBefore |-> 0, writes |-> <<>>]
  /\ quietRun = [ticks |-> 0, hadParticles |-> FALSE, loud |-> 0]
  /\ coreZoom = 0
  /\ coreVelocity = 0
  /\ avatarImageRef = "null"
  /\ avatarLoadedRef = FALSE
  /\ avatarImg = "null"
  /\ avatarDraw = [by |-> "none", radius |-> 0, painted |-> "none", failed |-> FALSE,
                   propagated |-> FALSE]

\* HTMLMediaElement.pause(): playback stops and the pending play() promises are rejected
PausedPc(p) == [r \in Runs |-> IF p[r] = "playWait" THEN "playAborted" ELSE p[r]]

\* HTMLMediaElement.play() on the element in state a
PlayCalled(a) == IF a = "paused" THEN "starting" ELSE a

\* the catch block of startExport
CatchExportError ==
  /\ errorMessage' = "exportFailed"
  /\ exportStatus' = "error"
  /\ isExporting' = FALSE

\* startExport from the try statement up to `await audioRef.current.play()`;
\* streamOk = getAudioStream() returned a stream; st, ex = the values that
\* exportStatus and isExporting hold when this part begins
SetupToPlay(r, streamOk, st, ex) ==
  IF streamOk
  THEN /\ pc' = [pc EXCEPT ![r] = "playWait"]
       /\ audio' = PlayCalled(audio)
       /\ exportStatus' = st
       /\ isExporting' = ex
       /\ errorMessage' = errorMessage
  ELSE /\ pc' = [pc EXCEPT ![r] = "failed"]
       /\ audio' = audio
       /\ CatchExportError

\* click on the start button: startExport up to its first await
StartExport(track, audioEl, avatar, streamOk) ==
  /\ ~isExporting
  /\ IF ~ValidSelection(track, audioEl)
     THEN /\ errorMessage' = "selectAudio"
          /\ exportStatus' = "error"
          /\ UNCHANGED <<isExporting, progress, chunksRef, mediaRecorderRef,
                         animationFrameRef, exportCanvasRef, audio, pc,
                         startStatus, recState, stopTask, animPending,
                         finTimer, elapsed, downloaded, nextRun, cancelled>>
     ELSE /\ nextRun <= MaxRuns
          /\ nextRun' = nextRun + 1
          /\ progress' = 0
          /\ chunksRef' = <<>>
          /\ exportCanvasRef' = nextRun
          /\ startStatus' = [startStatus EXCEPT ![nextRun] = exportStatus]
          /\ IF avatar
             THEN /\ pc' = [pc EXCEPT ![nextRun] = "avatarWait"]
                  /\ isExporting' = TRUE
                  /\ exportStatus' = "recording"
                  /\ UNCHANGED <<errorMessage, audio>>
             ELSE SetupToPlay(nextRun, streamOk, "recording", TRUE)
          /\ UNCHANGED <<mediaRecorderRef, animationFrameRef, recState,
                         stopTask, animPending, finTimer, elapsed, downloaded,
                         cancelled>>
  /\ UNCHANGED renderVars

AvatarResolvers_NoTimeout == {"load", "error"}

\* what resolves the avatar promise: avatarImg.onload, avatarImg.onerror and
\* setTimeout(resolve, 1000)
AvatarResolvers == {"load", "error", "timeout"}

\* the avatar promise settles (by onload, onerror or the 1 s timeout): startExport resumes
AvatarSettled(r, by, streamOk) ==
  /\ pc[r] = "avatarWait"
  /\ by \in AvatarResolvers
  /\ SetupToPlay(r, streamOk, exportStatus, isExporting)
  /\ UNCHANGED <<progress, chunksRef, mediaRecorderRef, animationFrameRef,
                 exportCanvasRef, startStatus, recState, stopTask, animPending,
                 finTimer, elapsed, downloaded, nextRun, cancelled>>
  /\ UNCHANGED renderVars

\* mediaRecorderRef.current?.state === "recording", with recorder states rec
RefRecording(rec, ref) == ref # NoRun /\ rec[ref] = "recording"

\* one call of animate by run r with elapsed e; rec, pend, ref are the recorder
\* states, the pending animate timers and mediaRecorderRef.current at the call
Animate(r, e, rec, pend, ref) ==
  IF startStatus[r] \in {"done", "error"}
  THEN /\ progress' = progress
       /\ animPending' = pend
       /\ animationFrameRef' = animationFrameRef
       /\ recState' = rec
       /\ stopTask' = stopTask
  ELSE /\ progress' = ProgressOf(e)
       /\ IF e < TotalDuration /\ RefRecording(rec, ref)
          THEN /\ animPending' = [pend EXCEPT ![r] = TRUE]
               /\ animationFrameRef' = r
               /\ recState' = rec
               /\ stopTask' = stopTask
          ELSE /\ animPending' = pend
               /\ animationFrameRef' = animationFrameRef
               /\ IF RefRecording(rec, ref) /\ rec[r] = "recording"
                  THEN /\ recState' = [rec EXCEPT ![r] = "inactive"]
                       /\ stopTask' = [stopTask EXCEPT ![r] = TRUE]
                  ELSE /\ recState' = rec
                       /\ stopTask' = stopTask

ThrowPoints == {"none", "ctor", "start"}

\* play() resolved: startExport runs from `new MediaRecorder` to its end;
\* throwAt names the statement of the try block that throws, if any
PlayResolved(r, throwAt) ==
  /\ pc[r] = "playWait"
  /\ audio' = "playing"
  /\ CASE throwAt = "ctor" ->
            /\ pc' = [pc EXCEPT ![r] = "failed"]
            /\ CatchExportError
            /\ UNCHANGED <<mediaRecorderRef, recState, progress, animPending,
                           animationFrameRef, stopTask, elapsed>>
       [] throwAt = "start" ->
            /\ pc' = [pc EXCEPT ![r] = "failed"]
            /\ mediaRecorderRef' = r
            /\ recState' = [recState EXCEPT ![r] = "inactive"]
            /\ CatchExportError
            /\ UNCHANGED <<progress, animPending, animationFrameRef, stopTask,
                           elapsed>>
       [] throwAt = "none" ->
            /\ pc' = [pc EXCEPT ![r] = "running"]
            /\ mediaRecorderRef' = r
            /\ elapsed' = [elapsed EXCEPT ![r] = 0]
            /\ Animate(r, 0, [recState EXCEPT ![r] = "recording"], animPending, r)
            /\ UNCHANGED <<exportStatus, isExporting, errorMessage>>
  /\ UNCHANGED <<chunksRef, exportCanvasRef, startStatus, finTimer, downloaded,
                 nextRun, cancelled>>
  /\ UNCHANGED renderVars

\* play() rejected (playback could not start, or pause() was called while it
\* was pending): the catch block runs
PlayRejected(r) ==
  /\ \/ pc[r] = "playAborted"
     \/ pc[r] = "playWait" /\ audio = "starting"
  /\ audio' = "paused"
  /\ pc' = [PausedPc(pc) EXCEPT ![r] = "failed"]
  /\ CatchExportError
  /\ UNCHANGED <<progress, chunksRef, mediaRecorderRef, animationFrameRef,
                 exportCanvasRef, startStatus, recState, stopTask, animPending,
                 finTimer, elapsed, downloaded, nextRun, cancelled>>
  /\ UNCHANGED renderVars

\* the timer set by animate fires after d time units
AnimateTimer(r, d) ==
  /\ animPending[r]
  /\ elapsed' = [elapsed EXCEPT ![r] = elapsed[r] + d]
  /\ Animate(r, elapsed[r] + d, recState, [animPending EXCEPT ![r] = FALSE],
             mediaRecorderRef)
  /\ UNCHANGED <<exportStatus, isExporting, errorMessage, chunksRef,
                 mediaRecorderRef, exportCanvasRef, audio, pc, startStatus,
                 finTimer, downloaded, nextRun, cancelled>>
  /\ UNCHANGED renderVars

\* recorder.ondataavailable while recording (timeslice of recorder.start(100))
DataAvailable(r) ==
  /\ recState[r] = "recording"
  /\ Len(chunksRef) < MaxChunks
  /\ chunksRef' = Append(chunksRef, r)
  /\ UNCHANGED <<exportStatus, isExporting, progress, errorMessage,
                 mediaRecorderRef, animationFrameRef, exportCanvasRef, audio,
                 pc, startStatus, recState, stopTask, animPending, finTimer,
                 elapsed, downloaded, nextRun, cancelled>>
  /\ UNCHANGED renderVars

\* the task queued by MediaRecorder.stop(): the last dataavailable, then recorder.onstop
RecorderStopTask(r, hasData) ==
  /\ stopTask[r]
  /\ hasData => Len(chunksRef) < MaxChunks
  /\ stopTask' = [stopTask EXCEPT ![r] = FALSE]
  /\ chunksRef' = IF hasData THEN Append(chunksRef, r) ELSE chunksRef
  /\ audio' = "paused"
  /\ pc' = PausedPc(pc)
  /\ exportStatus' = "processing"
  /\ finTimer' = [finTimer EXCEPT ![r] = TRUE]
  /\ UNCHANGED <<isExporting, progress, errorMessage, mediaRecorderRef,
                 animationFrameRef, exportCanvasRef, startStatus, recState,
                 animPending, elapsed, downloaded, nextRun, cancelled>>
  /\ UNCHANGED renderVars

\* the 500 ms timer set by recorder.onstop
FinalizeTimer(r) ==
  /\ finTimer[r]
  /\ finTimer' = [finTimer EXCEPT ![r] = FALSE]
  /\ downloaded' = [downloaded EXCEPT ![r] = TRUE]
  /\ exportStatus' = "done"
  /\ isExporting' = FALSE
  /\ pc' = [pc EXCEPT ![r] = IF @ = "running" THEN "finalized" ELSE @]
  /\ UNCHANGED <<progress, errorMessage, chunksRef, mediaRecorderRef,
                 animationFrameRef, exportCanvasRef, audio, startStatus,
                 recState, stopTask, animPending, elapsed, nextRun, cancelled>>
  /\ UNCHANGED renderVars

\* click on the cancel button, rendered while isExporting
CancelExport ==
  /\ isExporting
  /\ IF mediaRecorderRef # NoRun /\ recState[mediaRecorderRef] # "inactive"
     THEN /\ recState' = [recState EXCEPT ![mediaRecorderRef] = "inactive"]
          /\ stopTask' = [stopTask EXCEPT ![mediaRecorderRef] = TRUE]
     ELSE UNCHANGED <<recState, stopTask>>
  /\ IF animationFrameRef # NoRun
     THEN animPending' = [animPending EXCEPT ![animationFrameRef] = FALSE]
     ELSE UNCHANGED animPending
  /\ audio' = "paused"
  /\ pc' = PausedPc(pc)
  /\ isExporting' = FALSE
  /\ exportStatus' = "idle"
  /\ progress' = 0
  /\ cancelled' = cancelled \cup {r \in Runs : InFlight(r)}
  /\ UNCHANGED <<errorMessage, chunksRef, mediaRecorderRef, animationFrameRef,
                 exportCanvasRef, startStatus, finTimer, elapsed, downloaded,
                 nextRun>>
  /\ UNCHANGED renderVars

Next ==
  \/ \E track \in BOOLEAN, audioEl \in BOOLEAN, avatar \in BOOLEAN, streamOk \in BOOLEAN :
       StartExport(track, audioEl, avatar, streamOk)
  \/ \E r \in Runs, by \in {"load", "error", "timeout"}, streamOk \in BOOLEAN :
       AvatarSettled(r, by, streamOk)
  \/ \E r \in Runs, throwAt \in ThrowPoints : PlayResolved(r, throwAt)
  \/ \E r \in Runs : PlayRejected(r)
  \/ \E r \in Runs, d \in 1 .. MaxDelay : AnimateTimer(r, d)
  \/ \E r \in Runs : DataAvailable(r)
  \/ \E r \in Runs, hasData \in BOOLEAN : RecorderStopTask(r, hasData)
  \/ \E r \in Runs : FinalizeTimer(r)
  \/ CancelExport

Spec == Init /\ [][Next]_vars

TypeOK ==
  /\ exportStatus \in Statuses
  /\ isExporting \in BOOLEAN
  /\ progress \in 0 .. 100
  /\ errorMessage \in {"", "selectAudio", "exportFailed"}
  /\ chunksRef \in Seq(Runs) /\ Len(chunksRef) <= MaxChunks
  /\ mediaRecorderRef \in {NoRun} \cup Runs
  /\ animationFrameRef \in {NoRun} \cup Runs
  /\ exportCanvasRef \in {NoRun} \cup Runs
  /\ audio \in {"paused", "starting", "playing"}
  /\ \A r \in Runs :
       /\ pc[r] \in {"none", "avatarWait", "playWait", "playAborted", "running", "finalized", "failed"}
       /\ recState[r] \in {"none", "inactive", "recording"}
       /\ elapsed[r] \in 0 .. (TotalDuration + MaxDelay)

\* the same pipeline when the cancel button is never clicked
NextNoCancel ==
  \/ \E track \in BOOLEAN, audioEl \in BOOLEAN, avatar \in BOOLEAN, streamOk \in BOOLEAN :
       StartExport(track, audioEl, avatar, streamOk)
  \/ \E r \in Runs, by \in {"load", "error", "timeout"}, streamOk \in BOOLEAN :
       AvatarSettled(r, by, streamOk)
  \/ \E r \in Runs, throwAt \in ThrowPoints : PlayResolved(r, throwAt)
  \/ \E r \in Runs : PlayRejected(r)
  \/ \E r \in Runs, d \in 1 .. MaxDelay : AnimateTimer(r, d)
  \/ \E r \in Runs : DataAvailable(r)
  \/ \E r \in Runs, hasData \in BOOLEAN : RecorderStopTask(r, hasData)
  \/ \E r \in Runs : FinalizeTimer(r)

SpecNoCancel == Init /\ [][NextNoCancel]_vars

\* a callback of run r is scheduled: its animate timer, its recorder's stop task or its finalization timer
RunPending(r) == animPending[r] \/ stopTask[r] \/ finTimer[r]

\* a step taken by a callback of run q (recorder event, finalization timer or animate timer)
CallbackOf(q) ==
  \/ DataAvailable(q)
  \/ \E hasData \in BOOLEAN : RecorderStopTask(q, hasData)
  \/ FinalizeTimer(q)
  \/ \E d \in 1 .. MaxDelay : AnimateTimer(q, d)

\* a click on the start button
StartClick ==
  \E track \in BOOLEAN, audioEl \in BOOLEAN, avatar \in BOOLEAN, streamOk \in BOOLEAN :
    StartExport(track, audioEl, avatar, streamOk)

\* C1: cancelExport during recording sets status idle and progress 0, and
\* after a cancel status leaves idle only by a click on the start button.
C1_CancelStaysIdle ==
  [][ /\ (CancelExport /\ exportStatus = "recording")
           => (exportStatus' = "idle" /\ progress' = 0)
      /\ (cancelled # {} /\ exportStatus = "idle" /\ exportStatus' # "idle")
           => StartClick ]_vars

\* C2: a run that was cancelled or that failed never has a file assembled
\* from the chunk list and downloaded.
C2_NoFileFromCancelledOrFailedRun ==
  \A r \in Runs : downloaded[r] => (r \notin cancelled /\ pc[r] # "failed")

AllowedEdges ==
  { <<"idle", "recording">>, <<"done", "recording">>, <<"error", "recording">>,
    <<"idle", "error">>, <<"done", "error">>,
    <<"recording", "processing">>, <<"recording", "error">>,
    <<"processing", "done">>, <<"recording", "idle">> }

\* C3: export status changes only along the edges of the export state
\* machine; in particular never from idle to processing or to done.
C3_StatusEdges ==
  [][ exportStatus' # exportStatus
        => <<exportStatus, exportStatus'>> \in AllowedEdges ]_vars

\* C4: once a run is cancelled its animate timer never fires again, and its
\* recorder stop task and finalization timer change neither status, progress
\* nor isExporting and trigger no download.
C4_NoCallbackAfterCancel ==
  [][ \A r \in cancelled :
        /\ ~ (\E d \in 1 .. MaxDelay : AnimateTimer(r, d))
        /\ ((\E hasData \in BOOLEAN : RecorderStopTask(r, hasData)) \/ FinalizeTimer(r))
             => UNCHANGED <<exportStatus, progress, isExporting, downloaded>> ]_vars

\* C5: while the run started after a cancel is in flight, no callback of a
\* cancelled run changes the chunk list, status, progress or isExporting.
C5_NewRunUnaffected ==
  [][ \A r \in Runs :
        (r = nextRun - 1 /\ r \notin cancelled /\ InFlight(r))
          => \A q \in cancelled :
               CallbackOf(q) => UNCHANGED <<chunksRef, exportStatus, progress, isExporting>> ]_vars

\* C6: a run that completed setup and has not finalized always has a callback
\* scheduled that drives it on to processing and done (no run is left in
\* recording with nothing pending), when nothing is ever cancelled.
C6_NoStuckRun ==
  \A r \in Runs : pc[r] = "running" => RunPending(r)

\* C7: when startExport's catch block has run, status is error, isExporting is
\* false, the run's encoder is not recording, its animate timer is not
\* pending and playback is not running.
C7_FailedSetupReleasesAll ==
  [][ \A r \in Runs :
        (pc[r] # "failed" /\ pc'[r] = "failed")
          => /\ exportStatus' = "error"
             /\ isExporting' = FALSE
             /\ recState'[r] # "recording"
             /\ ~animPending'[r]
             /\ audio' = "paused" ]_vars

\* C8: startExport with no track or no audio element sets status error with
\* the select-audio message and changes nothing else: isExporting stays false,
\* progress and the chunk list are unchanged, and no canvas, playback,
\* encoder, timer or run is started.
C8_InvalidStartOnlyReportsError ==
  [][ \A track \in BOOLEAN, audioEl \in BOOLEAN, avatar \in BOOLEAN, streamOk \in BOOLEAN :
        (StartExport(track, audioEl, avatar, streamOk) /\ (~track \/ ~audioEl))
          => /\ exportStatus' = "error"
             /\ errorMessage' = "selectAudio"
             /\ isExporting' = FALSE
             /\ UNCHANGED <<isExporting, progress, chunksRef, exportCanvasRef,
                            audio, mediaRecorderRef, animationFrameRef, recState,
                            stopTask, animPending, finTimer, pc, nextRun>> ]_vars

\* C8 witness: a rejected start after a completed export: the error is
\* reported while the finished run's file and refs are as they were
C8_Witness ==
  /\ exportStatus = "error"
  /\ errorMessage = "selectAudio"
  /\ ~isExporting
  /\ \E r \in Runs : downloaded[r]

\* C9: after every cancelExport status is idle, progress 0, isExporting
\* false, no encoder is recording, no animate timer is pending and playback
\* is paused.
C9_CancelReleasesAll ==
  [][ CancelExport
        => /\ exportStatus' = "idle"
           /\ progress' = 0
           /\ isExporting' = FALSE
           /\ \A r \in Runs : recState'[r] # "recording"
           /\ \A r \in Runs : ~animPending'[r]
           /\ audio' = "paused" ]_vars

\* C10: never more than one encoder is recording and never more than one
\* animate timer is pending.
C10_SingleActiveRun ==
  /\ Cardinality({r \in Runs : recState[r] = "recording"}) <= 1
  /\ Cardinality({r \in Runs : animPending[r]}) <= 1

\* the period of setTimeout(animate, 16): the time unit of elapsed and MaxDelay
FrameInterval == 1

\* C11: whenever export status is done, progress is exactly 100.
C11_DoneMeansFullProgress ==
  exportStatus = "done" => progress = 100

\* C12: on every export tick the elapsed time handed to the renderer grows by
\* the same fixed increment (one frame interval), whatever wall-clock time
\* passed since the previous tick.
C12_FixedIncrement ==
  [][ \A r \in Runs :
        elapsed'[r] # elapsed[r] => elapsed'[r] = elapsed[r] + FrameInterval ]_vars

(***************************************************************************)
(* Numeric safety library (safeNumber .. safeCreateRadialGradient).         *)
(* A JavaScript number is NaN, an infinity, or a finite value held as an    *)
(* integer count of 1/Scale units.                                          *)
(***************************************************************************)
Scale == 10         \* resolution: model units per 1.0

Num(v) == [k |-> "fin", v |-> v]
NaN == [k |-> "nan", v |-> 0]
PosInf == [k |-> "inf", v |-> 1]
NegInf == [k |-> "inf", v |-> -1]

\* what a gradient constructor gives: a CanvasGradient, null, or an exception
Gradient == [k |-> "gradient", v |-> 0]
Null == [k |-> "null", v |-> 0]
Throws == [k |-> "throws", v |-> 0]

\* Number.isFinite
IsFinite(x) == x.k = "fin"

\* a < b for numbers that are not NaN
JsLess(a, b) ==
  IF a.k = "inf" THEN a.v < 0 /\ ~(b.k = "inf" /\ b.v < 0)
  ELSE IF b.k = "inf" THEN b.v > 0
  ELSE a.v < b.v

\* Math.max, Math.min: NaN if an argument is NaN
JsMax(a, b) == IF a.k = "nan" \/ b.k = "nan" THEN NaN ELSE IF JsLess(a, b) THEN b ELSE a
JsMin(a, b) == IF a.k = "nan" \/ b.k = "nan" THEN NaN ELSE IF JsLess(a, b) THEN a ELSE b

\* a % n for a finite positive n: the remainder has the sign of the dividend
JsRem(a, n) ==
  IF ~IsFinite(a) THEN NaN
  ELSE IF a.v >= 0 THEN Num(a.v % n) ELSE Num(0 - ((0 - a.v) % n))

\* a + n for a finite n
JsAdd(a, n) == IF IsFinite(a) THEN Num(a.v + n) ELSE a

\* Math.round: to the nearest integer, halves upwards
JsRound(a) ==
  IF IsFinite(a) THEN Num(((2 * a.v + Scale) \div (2 * Scale)) * Scale) ELSE a

safeNumber(value, fallback) ==
  IF ~IsFinite(value) THEN fallback ELSE value

safeAlpha(value) == JsMax(Num(0), JsMin(Num(Scale), safeNumber(value, Num(0))))

safeHue_SingleRem(value) == JsRem(safeNumber(value, Num(0)), 360 * Scale)

safeHue(value) ==
  JsRem(JsAdd(JsRem(safeNumber(value, Num(0)), 360 * Scale), 360 * Scale), 360 * Scale)

\* safePct(value), with the default fallback = 50 that every caller uses
safePct(value) ==
  JsMax(Num(0), JsMin(Num(100 * Scale), safeNumber(value, Num(50 * Scale))))

safeRGB(value) ==
  JsMax(Num(0), JsMin(Num(255 * Scale), JsRound(safeNumber(value, Num(0)))))

\* CanvasRenderingContext2D.createLinearGradient: TypeError for a non-finite argument
CanvasLinearGradient(x0, y0, x1, y1) ==
  IF \A c \in {x0, y0, x1, y1} : IsFinite(c) THEN Gradient ELSE Throws

\* CanvasRenderingContext2D.createRadialGradient: TypeError for a non-finite
\* argument, IndexSizeError for a negative radius
CanvasRadialGradient(x0, y0, r0, x1, y1, r1) ==
  IF /\ \A c \in {x0, y0, r0, x1, y1, r1} : IsFinite(c)
     /\ r0.v >= 0 /\ r1.v >= 0
  THEN Gradient ELSE Throws

safeCreateLinearGradient(x0, y0, x1, y1) ==
  LET sx0 == safeNumber(x0, Num(0))
      sy0 == safeNumber(y0, Num(0))
      sx1 == safeNumber(x1, Num(0))
      sy1 == safeNumber(y1, Num(0))
  IN  IF sx0 = sx1 /\ sy0 = sy1 THEN Null
      ELSE IF CanvasLinearGradient(sx0, sy0, sx1, sy1) = Throws THEN Null
      ELSE Gradient

\* Math.max(0.1, safeNumber(r1, 0.1)): 0.1 in model units
MinRadius == Scale \div 10

safeCreateRadialGradient(x0, y0, r0, x1, y1, r1) ==
  LET sx0 == safeNumber(x0, Num(0))
      sy0 == safeNumber(y0, Num(0))
      sr0 == JsMax(Num(0), safeNumber(r0, Num(0)))
      sx1 == safeNumber(x1, Num(0))
      sy1 == safeNumber(y1, Num(0))
      sr1 == JsMax(Num(MinRadius), safeNumber(r1, Num(MinRadius)))
  IN  IF CanvasRadialGradient(sx0, sy0, sr0, sx1, sy1, sr1) = Throws THEN Null
      ELSE Gradient

\* inputs: the three non-finite numbers and every finite value up to beyond
\* two turns of hue in either direction
MaxInput == (2 * 360 + 2) * Scale
NumInputs == {NaN, PosInf, NegInf} \cup {Num(v) : v \in (0 - MaxInput) .. MaxInput}
CoordInputs == {NaN, PosInf, Num(0), Num(Scale)}
RadiusInputs == {NaN, PosInf, NegInf, Num(0 - Scale), Num(0), Num(Scale)}

NoCall == [fn |-> "none", args |-> <<>>, out |-> [k |-> "none", v |-> 0]]

\* safeCall holds one call at a time: a call is entered from outside the
\* library and its record is dropped when the caller has used the result
Returns(fn, args, out) ==
  /\ safeCall' = [fn |-> fn, args |-> args, out |-> out]
  /\ UNCHANGED <<vars, burstVars, vortexVars, ecgVars, avatarVars, variantVars, storeVars, replayVars, liveVars>>

CallSafeHue ==
  /\ safeCall = NoCall
  /\ \E x \in NumInputs : Returns("safeHue", <<x>>, safeHue(x))

CallSafePct ==
  /\ safeCall = NoCall
  /\ \E x \in NumInputs : Returns("safePct", <<x>>, safePct(x))

CallSafeAlpha ==
  /\ safeCall = NoCall
  /\ \E x \in NumInputs : Returns("safeAlpha", <<x>>, safeAlpha(x))

CallSafeRGB ==
  /\ safeCall = NoCall
  /\ \E x \in NumInputs : Returns("safeRGB", <<x>>, safeRGB(x))

CallLinearGradient ==
  /\ safeCall = NoCall
  /\ \E x0 \in CoordInputs, y0 \in CoordInputs, x1 \in CoordInputs, y1 \in CoordInputs :
       Returns("safeCreateLinearGradient", <<x0, y0, x1, y1>>,
               safeCreateLinearGradient(x0, y0, x1, y1))

CallRadialGradient ==
  /\ safeCall = NoCall
  /\ \E x0 \in CoordInputs, y0 \in CoordInputs, r0 \in RadiusInputs,
        x1 \in CoordInputs, y1 \in CoordInputs, r1 \in RadiusInputs :
       Returns("safeCreateRadialGradient", <<x0, y0, r0, x1, y1, r1>>,
               safeCreateRadialGradient(x0, y0, r0, x1, y1, r1))

ReturnFromCall ==
  /\ safeCall # NoCall
  /\ safeCall' = NoCall
  /\ UNCHANGED <<vars, burstVars, vortexVars, ecgVars, avatarVars, variantVars, storeVars, replayVars, liveVars>>

\* the renderers call the library with whatever the audio data and geometry give
NextSafe ==
  \/ CallSafeHue
  \/ CallSafePct
  \/ CallSafeAlpha
  \/ CallSafeRGB
  \/ CallLinearGradient
  \/ CallRadialGradient
  \/ ReturnFromCall

allVars == <<vars, renderVars>>

SpecSafe == Init /\ [][NextSafe]_allVars

\* C15: for every input, NaN and the infinities included, safeHue returns a
\* finite value in [0,360), safePct one in [0,100], safeAlpha one in [0,1] and
\* safeRGB an integer in [0,255].
C15_SafeRanges ==
  LET out == safeCall.out IN
  /\ safeCall.fn = "safeHue" => (IsFinite(out) /\ 0 <= out.v /\ out.v < 360 * Scale)
  /\ safeCall.fn = "safePct" => (IsFinite(out) /\ 0 <= out.v /\ out.v <= 100 * Scale)
  /\ safeCall.fn = "safeAlpha" => (IsFinite(out) /\ 0 <= out.v /\ out.v <= Scale)
  /\ safeCall.fn = "safeRGB" =>
       (IsFinite(out) /\ 0 <= out.v /\ out.v <= 255 * Scale /\ out.v % Scale = 0)

\* C15 witness: a negative hue of more than one turn has been wrapped
C15_Witness ==
  /\ safeCall.fn = "safeHue"
  /\ safeCall.args = <<Num(0 - 361 * Scale)>>
  /\ safeCall.out = Num(359 * Scale)

\* C16: a linear gradient with identical start and end point is null, a
\* radial gradient with a non-positive or NaN radius is null, and neither
\* construction throws.
C16_DegenerateGradientIsNull ==
  /\ safeCall.out # Throws
  /\ (safeCall.fn = "safeCreateLinearGradient"
        /\ safeCall.args[1] = safeCall.args[3] /\ safeCall.args[2] = safeCall.args[4])
       => safeCall.out = Null
  /\ (safeCall.fn = "safeCreateRadialGradient"
        /\ \E i \in {3, 6} : safeCall.args[i].k = "nan"
                              \/ (IsFinite(safeCall.args[i]) /\ safeCall.args[i].v <= 0))
       => safeCall.out = Null

(***************************************************************************)
(* Renderer state stores and the bar variant.  The live renderer keeps its  *)
(* store in refs of VisualizerCanvas, an export run keeps its own in the    *)
(* visualizerState object of startExport.  Heights are held in units of     *)
(* 1/PxUnits pixel.  Of a store, the particle pool and the bar caps are     *)
(* modelled.                                                                *)
(***************************************************************************)
PxUnits == 2

\* the fall of a cap per tick: 2.5 pixels
CapDecay == (5 * PxUnits) \div 2

\* Math.max(4, ...): the least height of a bar
MinBar == 4 * PxUnits

Max(a, b) == IF a > b THEN a ELSE b
Abs(a) == IF a < 0 THEN 0 - a ELSE a

\* the visualizerState literal of startExport; the refs of VisualizerCanvas
\* start with the same values
DefaultState == [particles |-> <<>>, barCaps |-> <<>>]

\* the frequency bin (0-based) that slot i (0-based) shows:
\* Math.floor(normalizedDist * data.length * 0.7)
DataIndex(i) == (Abs(2 * i - (BarCount - 1)) * DataLen * 7) \div (10 * BarCount)

\* Math.max(4, value * (height * 0.65)) for a canvas with height * 0.65 = 127.5,
\* where a bin value b gives b / 2 pixels
targetHeight(data, i) == Max(MinBar, data[DataIndex(i) + 1])

CapAfter_NoFloor(target, cap) ==
  IF target > cap THEN target ELSE cap - CapDecay

CapAfter(target, cap) ==
  IF target > cap THEN target ELSE Max(target, cap - CapDecay)

\* the cap update of the bar variant, on the store it is given
drawBars(state, data) ==
  LET caps == IF Len(state.barCaps) # BarCount
              THEN [i \in 1 .. BarCount |-> 0]
              ELSE state.barCaps
  IN  [state EXCEPT !.barCaps =
         [i \in 1 .. BarCount |-> CapAfter(targetHeight(data, i - 1), caps[i])]]

BarSpectra == [1 .. DataLen -> {0, MaxByte}]

\* the analyser delivers a new spectrum
UpdateAnalyserData(d) ==
  /\ analyserData' = d
  /\ UNCHANGED <<liveState, visualizerState, exportRuns, exportActive>>
  /\ UNCHANGED <<vars, burstVars, vortexVars, ecgVars, avatarVars, variantVars, safeVars, replayVars, liveVars>>

\* one live frame of the bar variant
LiveDrawBars ==
  /\ liveState' = drawBars(liveState, analyserData)
  /\ UNCHANGED <<analyserData, visualizerState, exportRuns, exportActive>>
  /\ UNCHANGED <<vars, burstVars, vortexVars, ecgVars, avatarVars, variantVars, safeVars, replayVars, liveVars>>

NewVisualizerState_Reused(previous) ==
  IF previous = <<>> THEN <<DefaultState>> ELSE previous

NewVisualizerState(previous) == <<DefaultState>>

\* startExport reaches the construction of its store
StartExportState ==
  /\ ~exportActive
  /\ exportRuns < MaxRuns
  /\ visualizerState' = NewVisualizerState(visualizerState)
  /\ exportRuns' = exportRuns + 1
  /\ exportActive' = TRUE
  /\ UNCHANGED <<analyserData, liveState>>
  /\ UNCHANGED <<vars, burstVars, vortexVars, ecgVars, avatarVars, variantVars, safeVars, replayVars, liveVars>>

\* one export frame of the bar variant
ExportDrawBars ==
  /\ exportActive
  /\ visualizerState' = <<drawBars(visualizerState[1], analyserData)>>
  /\ UNCHANGED <<analyserData, liveState, exportRuns, exportActive>>
  /\ UNCHANGED <<vars, burstVars, vortexVars, ecgVars, avatarVars, variantVars, safeVars, replayVars, liveVars>>

\* the run has drawn its last frame
EndExportRun ==
  /\ exportActive
  /\ exportActive' = FALSE
  /\ UNCHANGED <<analyserData, liveState, visualizerState, exportRuns>>
  /\ UNCHANGED <<vars, burstVars, vortexVars, ecgVars, avatarVars, variantVars, safeVars, replayVars, liveVars>>

NextBars ==
  \/ \E d \in BarSpectra : UpdateAnalyserData(d)
  \/ LiveDrawBars
  \/ StartExportState
  \/ ExportDrawBars
  \/ EndExportRun

SpecBars == Init /\ [][NextBars]_allVars

\* the caps a bar tick starts from, and the rule the claim states for slot i
OldCap(state, i) == IF Len(state.barCaps) # BarCount THEN 0 ELSE state.barCaps[i]

CapRuleHolds(old, target, new) ==
  /\ target > old => new = target
  /\ target <= old => new = Max(target, old - CapDecay)
  /\ new >= old - CapDecay
  /\ new >= target

\* C17: on every bar tick, live or export, and for every slot, the new cap is
\* the target if the target exceeds the old cap and max(target, old cap - 2.5)
\* otherwise; so the cap falls by at most 2.5 and is not below the target.
C17_CapRule ==
  [][ /\ LiveDrawBars =>
           \A i \in 1 .. BarCount :
             CapRuleHolds(OldCap(liveState, i), targetHeight(analyserData, i - 1),
                          liveState'.barCaps[i])
      /\ ExportDrawBars =>
           \A i \in 1 .. BarCount :
             CapRuleHolds(OldCap(visualizerState[1], i), targetHeight(analyserData, i - 1),
                          visualizerState'[1].barCaps[i]) ]_allVars

\* C17 witness: the target fell from the loudest value to the least height and
\* the cap has come down by one decay step only
C17_Witness ==
  /\ Len(liveState.barCaps) = BarCount
  /\ liveState.barCaps[1] = MaxByte - CapDecay
  /\ targetHeight(analyserData, 0) = MinBar

\* C13: every export run starts on a store newly constructed with the default
\* values; an export frame changes the run's own store only, and to a value
\* determined by that store and the spectrum; a live frame changes the live
\* store only, and to a value determined by the live store and the spectrum;
\* nothing of an earlier run's store is carried into a later run.
C13_StoresIsolated ==
  [][ /\ exportRuns' # exportRuns => visualizerState' = <<DefaultState>>
      /\ visualizerState' # visualizerState => liveState' = liveState
      /\ liveState' # liveState => visualizerState' = visualizerState
      /\ ExportDrawBars =>
           \E d \in BarSpectra : visualizerState' = <<drawBars(visualizerState[1], d)>>
      /\ LiveDrawBars =>
           \E d \in BarSpectra : liveState' = drawBars(liveState, d) ]_allVars

\* C13 witness: a second export run has its fresh store while the live store
\* holds caps of frames drawn before
C13_Witness ==
  /\ exportRuns = 2
  /\ exportActive
  /\ visualizerState = <<DefaultState>>
  /\ liveState.barCaps # <<>>

(***************************************************************************)
(* The burst (fireworks) variant.  A particle is held as its life, in       *)
(* thousandths; energies are in thousandths too.                            *)
(***************************************************************************)
RECURSIVE SumSeq(_)
SumSeq(q) == IF q = <<>> THEN 0 ELSE Head(q) + SumSeq(Tail(q))

\* data.reduce((sum, val) => sum + val, 0) / data.length / 255
avgEnergy(data) == (SumSeq(data) * 1000) \div (Len(data) * 255)

\* if (avgEnergy > triggerThreshold && ...)
triggerThreshold == 220

decayRate_None(data) == 0

\* 0.018 + (1 - avgEnergy) * 0.025
decayRate(data) == 18 + ((1000 - avgEnergy(data)) * 25) \div 1000

\* life = 0.7 + Math.random() * 0.8 + scale * 0.4 with scale at least 0.3:
\* the least life, and the life for Math.random() = 0.5
MinLife == 700 + (3 * 400) \div 10
LifeChoices == {MinLife, MinLife + 400}

\* the outcomes of Math.random() in one tick: whether the burst is triggered
\* and the life of each particle of the burst
RandomDraws == [trigger : BOOLEAN, lives : [1 .. BurstSize -> LifeChoices]]

\* the pool can take another burst
RoomForBurst(state) == Len(state.particles) + BurstSize <= MaxPool

\* the pool update of the burst variant on the store it is given: push the
\* burst, filter the particles with life > 0, then age those that are left
drawFireworks(state, data, rnd) ==
  LET pushed == IF avgEnergy(data) > triggerThreshold /\ rnd.trigger /\ RoomForBurst(state)
                THEN state.particles \o rnd.lives
                ELSE state.particles
      kept == SelectSeq(pushed, LAMBDA life : life > 0)
  IN  [state EXCEPT !.particles = [i \in 1 .. Len(kept) |-> kept[i] - decayRate(data)]]

FireSpectra == {[i \in 1 .. DataLen |-> 0], [i \in 1 .. DataLen |-> 255]}

\* one live frame of the burst variant
LiveDrawFireworks(rnd) ==
  /\ liveState' = drawFireworks(liveState, analyserData, rnd)
  /\ UNCHANGED <<analyserData, visualizerState, exportRuns, exportActive>>
  /\ UNCHANGED <<vars, burstVars, vortexVars, ecgVars, avatarVars, variantVars, safeVars, replayVars, liveVars>>

NextFireworks ==
  \/ \E d \in FireSpectra : UpdateAnalyserData(d)
  \/ \E rnd \in RandomDraws : LiveDrawFireworks(rnd)

SpecFireworks == Init /\ [][NextFireworks]_allVars

\* C18: after every tick of the burst variant the pool holds exactly the
\* particles whose life is greater than 0: one whose life has become <= 0 in
\* a tick is gone at the end of that tick.
C18_PoolHoldsOnlyLiving ==
  \A i \in 1 .. Len(liveState.particles) : liveState.particles[i] > 0

(***************************************************************************)
(* Replay: two freshly constructed stores are fed the same spectrum on      *)
(* every tick.  The elapsed time a tick is handed enters the painting of    *)
(* these two variants only, not their stores.  Each store's renderer makes  *)
(* its own calls of Math.random().                                          *)
(***************************************************************************)
ReplayBars(d) ==
  /\ replayTicks < MaxReplay
  /\ replay' = <<drawBars(replay[1], d), drawBars(replay[2], d)>>
  /\ replayTicks' = replayTicks + 1
  /\ UNCHANGED <<vars, burstVars, vortexVars, ecgVars, avatarVars, variantVars, safeVars, storeVars, liveVars>>

ReplayFireworks(d, rnd1, rnd2) ==
  /\ replayTicks < MaxReplay
  /\ replay' = <<drawFireworks(replay[1], d, rnd1), drawFireworks(replay[2], d, rnd2)>>
  /\ replayTicks' = replayTicks + 1
  /\ UNCHANGED <<vars, burstVars, vortexVars, ecgVars, avatarVars, variantVars, safeVars, storeVars, liveVars>>

NextReplay ==
  \/ \E d \in BarSpectra : ReplayBars(d)
  \/ \E d \in FireSpectra, rnd1 \in RandomDraws, rnd2 \in RandomDraws :
       ReplayFireworks(d, rnd1, rnd2)

SpecReplay == Init /\ [][NextReplay]_allVars

\* C14: two fresh stores replayed with the same spectrum sequence and the
\* same elapsed-time sequence hold identical state after every tick, for
\* every variant.
C14_ReplaysAgree ==
  replay[1] = replay[2]

(***************************************************************************)
(* The live frame scheduler: the animation effect of VisualizerCanvas.      *)
(* The effect runs on mount and again after every change of a dependency    *)
(* (variant, spectrum data, play state); each run first performs the        *)
(* cleanup of the run before it.                                            *)
(***************************************************************************)
Types == {"bars", "fireworks", "spheres"}

\* the keys of drawFunctions: variants the live renderer has a function for
HasDrawFunction(t) == t \in {"bars", "fireworks"}

Pending(h, run, t) == [id |-> h, run |-> run, type |-> t]

cancelAnimationFrame_Ignored(pending, h) == pending

cancelAnimationFrame(pending, h) == {p \in pending : p.id # h}

\* the effect's cleanup: if (animationRef.current) cancelAnimationFrame(animationRef.current)
Cleanup(pending) ==
  IF animationRef # 0 THEN cancelAnimationFrame(pending, animationRef) ELSE pending

\* the direct animate() call of effect run `run` for variant t, on a tick
\* counter that stands at `ticks`, with the callbacks `pending` left by the
\* cleanup before it
EffectAnimate(run, t, pending, ticks) ==
  /\ nextHandle <= MaxHandles
  /\ timeRef' = ticks + 1
  /\ ticksInRefresh' = ticksInRefresh + 1
  /\ drawsInRefresh' = drawsInRefresh + (IF HasDrawFunction(t) THEN 1 ELSE 0)
  /\ animationRef' = nextHandle
  /\ rafPending' = pending \cup {Pending(nextHandle, run, t)}
  /\ nextHandle' = nextHandle + 1
  /\ effectRun' = run

\* the component mounts: a new instance whose timeRef starts at 0, and the
\* effect runs
MountCanvas ==
  /\ ~mounted
  /\ mounted' = TRUE
  /\ EffectAnimate(effectRun + 1, type, rafPending, 0)
  /\ UNCHANGED type
  /\ UNCHANGED <<vars, burstVars, vortexVars, ecgVars, avatarVars, variantVars, safeVars, storeVars, replayVars>>

\* a dependency of the effect changed (t # type: the variant; t = type: the
\* spectrum data or the play state): cleanup of the old run, then the new run
DepsChange(t) ==
  /\ mounted
  /\ type' = t
  /\ EffectAnimate(effectRun + 1, t, Cleanup(rafPending), timeRef)
  /\ UNCHANGED mounted
  /\ UNCHANGED <<vars, burstVars, vortexVars, ecgVars, avatarVars, variantVars, safeVars, storeVars, replayVars>>

\* the component unmounts: cleanup only
UnmountCanvas ==
  /\ mounted
  /\ mounted' = FALSE
  /\ rafPending' = Cleanup(rafPending)
  /\ UNCHANGED <<type, animationRef, timeRef, nextHandle, effectRun, ticksInRefresh,
                 drawsInRefresh>>
  /\ UNCHANGED <<vars, burstVars, vortexVars, ecgVars, avatarVars, variantVars, safeVars, storeVars, replayVars>>

\* a display refresh: the browser runs the callbacks pending at its start, in
\* the order of their handles; each is an animate() of the run that requested
\* it and requests the next callback of that run
DisplayRefresh ==
  LET n == Cardinality(rafPending)
      Rank(p) == Cardinality({q \in rafPending : q.id < p.id})
  IN  /\ nextHandle + n - 1 <= MaxHandles
      /\ timeRef' = timeRef + n
      /\ ticksInRefresh' = n
      /\ drawsInRefresh' = Cardinality({p \in rafPending : HasDrawFunction(p.type)})
      /\ rafPending' = {Pending(nextHandle + Rank(p), p.run, p.type) : p \in rafPending}
      /\ animationRef' = IF n = 0 THEN animationRef ELSE nextHandle + n - 1
      /\ nextHandle' = nextHandle + n
      /\ UNCHANGED <<mounted, type, effectRun>>
      /\ UNCHANGED <<vars, burstVars, vortexVars, ecgVars, avatarVars, variantVars, safeVars, storeVars, replayVars>>

NextLive ==
  \/ MountCanvas
  \/ \E t \in Types : DepsChange(t)
  \/ UnmountCanvas
  \/ DisplayRefresh

SpecLive == Init /\ [][NextLive]_allVars

\* C19: at most one animation-frame callback is pending, and every pending
\* callback was requested by the active loop: the callback of a loop that was
\* deactivated (unmount, or an effect re-run) has been cancelled, so it cannot run.
C19_OnePendingOfActiveLoop ==
  /\ Cardinality(rafPending) <= 1
  /\ \A p \in rafPending : mounted /\ p.run = effectRun /\ p.id = animationRef

\* C19 witness: the effect has re-run and the only pending callback is the
\* new run's
C19_Witness ==
  /\ mounted
  /\ effectRun = 2
  /\ rafPending = {Pending(animationRef, 2, type)}

\* C20: while the scheduler is active the tick counter never decreases, and
\* per display refresh (from the start of one refresh to the start of the
\* next) it is incremented once and not more, with one renderer invocation
\* for the increment, whatever changes of spectrum data, play state or
\* variant happen in between.
C20_OneTickPerRefresh ==
  [][ /\ (mounted /\ mounted') => timeRef' >= timeRef
      /\ ticksInRefresh' <= 1
      /\ drawsInRefresh' = ticksInRefresh' ]_allVars

(***************************************************************************)
(* Variant selection and dispatch.  The selected variant is state of the    *)
(* audio context; the live canvas receives it as its type prop and looks    *)
(* it up in drawFunctions, the export frame switches on it.                 *)
(***************************************************************************)
VisualizerType ==
  {"bars", "wave", "circle", "particles", "spectrum", "galaxy", "dna", "matrix",
   "fireworks", "aurora", "vortex", "lightning", "spheres"}

\* the keys of the drawFunctions record of the live animate()
DrawFunctionKeys ==
  {"bars", "wave", "circle", "particles", "spectrum", "galaxy", "dna", "matrix",
   "fireworks", "aurora", "vortex", "lightning"}

\* the case labels of the switch of drawVisualizerByType
ExportCases ==
  {"bars", "spheres", "wave", "circle", "particles", "spectrum", "galaxy", "dna",
   "matrix", "fireworks", "vortex", "lightning", "aurora"}

\* drawFunctions[type]: the function invoked, "none" if the lookup is undefined
drawFunctions(t) == IF t \in DrawFunctionKeys THEN t ELSE "none"

\* switch (type): the case executed, "default" for the generic frame
drawVisualizerByType(t) == IF t \in ExportCases THEN t ELSE "default"

\* the live store after a frame of variant t; the stores of the variants
\* other than bars and fireworks are not modelled
LiveStateAfter(state, t, data, rnd) ==
  CASE drawFunctions(t) = "bars" -> drawBars(state, data)
    [] drawFunctions(t) = "fireworks" -> drawFireworks(state, data, rnd)
    [] OTHER -> state

\* setVisualizerType(t)
SelectVariant(t) ==
  /\ visualizerType' = t
  /\ switched' = (switched \/ t # visualizerType)
  /\ UNCHANGED <<liveDrawn, exportDrawn>>
  /\ UNCHANGED <<vars, burstVars, vortexVars, ecgVars, avatarVars, safeVars, storeVars, replayVars, liveVars>>

\* one live frame: the lookup in drawFunctions and the call of what it found
LiveFrame(rnd) ==
  /\ liveDrawn' = drawFunctions(visualizerType)
  /\ liveState' = LiveStateAfter(liveState, visualizerType, analyserData, rnd)
  /\ switched' = FALSE
  /\ UNCHANGED <<visualizerType, exportDrawn>>
  /\ UNCHANGED <<analyserData, visualizerState, exportRuns, exportActive>>
  /\ UNCHANGED <<vars, burstVars, vortexVars, ecgVars, avatarVars, safeVars, replayVars, liveVars>>

\* the dispatch of one export frame
ExportDispatch ==
  /\ exportDrawn' = drawVisualizerByType(visualizerType)
  /\ UNCHANGED <<visualizerType, liveDrawn, switched>>
  /\ UNCHANGED <<vars, burstVars, vortexVars, ecgVars, avatarVars, safeVars, storeVars, replayVars, liveVars>>

NextVariants ==
  \/ \E t \in VisualizerType : SelectVariant(t)
  \/ \E d \in BarSpectra : UpdateAnalyserData(d)
  \/ \E rnd \in RandomDraws : LiveFrame(rnd)
  \/ ExportDispatch

SpecVariants == Init /\ [][NextVariants]_allVars

\* C21: for every selectable variant, a live frame invokes that variant's own
\* draw function and an export frame executes that variant's own case: never
\* no function, never the generic default frame.
C21_EveryVariantHasItsRenderer ==
  [][ /\ (\E rnd \in RandomDraws : LiveFrame(rnd)) => liveDrawn' = visualizerType
      /\ ExportDispatch => exportDrawn' = visualizerType ]_allVars

\* C22: after a change of the selected variant the live renderer works on
\* reset state: the first frame after the change gives what that frame gives
\* on the default store, so nothing accumulated before the change is seen.
C22_SwitchResetsLiveState ==
  [][ switched =>
        \A rnd \in RandomDraws :
          LiveFrame(rnd) =>
            liveState' = LiveStateAfter(DefaultState, visualizerType, analyserData, rnd) ]_allVars

(***************************************************************************)
(* Avatar pre-loading.  The image may load, fail, or do neither; the timer  *)
(* of setTimeout(resolve, 1000) always fires.                               *)
(***************************************************************************)
AvatarTimeout == \E r \in Runs, streamOk \in BOOLEAN : AvatarSettled(r, "timeout", streamOk)

SpecNoCancelFair == SpecNoCancel /\ WF_vars(AvatarTimeout)

\* C23: a startExport waiting for the avatar image always resumes, whether
\* the image loads, fails or never completes: the wait ends with the timeout
\* at the latest.
C23_AvatarWaitEnds ==
  \A r \in Runs : (pc[r] = "avatarWait") ~> (pc[r] # "avatarWait")

\* C23 witness: a startExport is suspended at the avatar promise
C23_Witness ==
  \E r \in Runs : pc[r] = "avatarWait" /\ isExporting /\ exportCanvasRef = r

(***************************************************************************)
(* The centre avatar.  drawImage throws for an image in the broken state    *)
(* and may fail for any other image as well; for an image that is not yet   *)
(* decodable it returns without drawing.                                    *)
(***************************************************************************)
\* ctx.drawImage(img, ...), where `fails` says that the platform call fails
drawImage(img, fails) ==
  IF img = "broken" \/ fails THEN "throws"
  ELSE IF img = "loading" THEN "nothing"
  ELSE "drawn"

\* Math.max(10, safeNumber(radius, 50))
safeRadius(radius) == JsMax(Num(10 * Scale), safeNumber(radius, Num(50 * Scale))).v

RadiusArgs == {NaN, Num(5 * Scale), Num(50 * Scale), Num(60 * Scale)}

\* img.onload of the live canvas
AvatarLoaded ==
  /\ avatarImageRef' = "img"
  /\ avatarLoadedRef' = TRUE
  /\ UNCHANGED <<avatarImg, avatarDraw>>
  /\ UNCHANGED <<vars, burstVars, vortexVars, ecgVars, safeVars, storeVars, replayVars, liveVars, variantVars>>

\* img.onerror of the live canvas, or the avatarImage prop removed
AvatarUnset ==
  /\ avatarImageRef' = "null"
  /\ avatarLoadedRef' = FALSE
  /\ UNCHANGED <<avatarImg, avatarDraw>>
  /\ UNCHANGED <<vars, burstVars, vortexVars, ecgVars, safeVars, storeVars, replayVars, liveVars, variantVars>>

\* the pre-loading of startExport leaves avatarImg as img: null without an
\* avatar, else an image that loaded, failed, or was still loading at the timeout
ExportAvatarPreloaded(img) ==
  /\ avatarImg' = img
  /\ UNCHANGED <<avatarImageRef, avatarLoadedRef, avatarDraw>>
  /\ UNCHANGED <<vars, burstVars, vortexVars, ecgVars, safeVars, storeVars, replayVars, liveVars, variantVars>>

\* drawCenterAvatar of the live canvas: no try around drawImage
LiveDrawCenterAvatar(radius, fails) ==
  /\ avatarDraw' =
       IF avatarImageRef = "null" \/ ~avatarLoadedRef
       THEN [by |-> "live", radius |-> safeRadius(radius), painted |-> "glow",
             failed |-> FALSE, propagated |-> FALSE]
       ELSE LET res == drawImage("loaded", fails)
            IN  [by |-> "live", radius |-> safeRadius(radius),
                 painted |-> IF res = "drawn" THEN "image" ELSE "none",
                 failed |-> res = "throws", propagated |-> res = "throws"]
  /\ UNCHANGED <<avatarImageRef, avatarLoadedRef, avatarImg>>
  /\ UNCHANGED <<vars, burstVars, vortexVars, ecgVars, safeVars, storeVars, replayVars, liveVars, variantVars>>

\* drawCenterAvatar of the export modal: try { drawImage } catch { drawCenterGlow }
ExportDrawCenterAvatar(radius, fails) ==
  /\ avatarDraw' =
       IF avatarImg = "null"
       THEN [by |-> "export", radius |-> safeRadius(radius), painted |-> "glow",
             failed |-> FALSE, propagated |-> FALSE]
       ELSE LET res == drawImage(avatarImg, fails)
            IN  [by |-> "export", radius |-> safeRadius(radius),
                 painted |-> IF res = "drawn" THEN "image"
                             ELSE IF res = "throws" THEN "glow" ELSE "none",
                 failed |-> res = "throws", propagated |-> FALSE]
  /\ UNCHANGED <<avatarImageRef, avatarLoadedRef, avatarImg>>
  /\ UNCHANGED <<vars, burstVars, vortexVars, ecgVars, safeVars, storeVars, replayVars, liveVars, variantVars>>

NextAvatar ==
  \/ AvatarLoaded
  \/ AvatarUnset
  \/ \E img \in {"null", "loading", "loaded", "broken"} : ExportAvatarPreloaded(img)
  \/ \E radius \in RadiusArgs, fails \in BOOLEAN : LiveDrawCenterAvatar(radius, fails)
  \/ \E radius \in RadiusArgs, fails \in BOOLEAN : ExportDrawCenterAvatar(radius, fails)

SpecAvatar == Init /\ [][NextAvatar]_allVars

\* C24: in the live and in the export renderer a failure of drawing the
\* avatar image does not leave drawCenterAvatar as an exception, and the
\* generic glow is painted in place of the image.
C24_AvatarFailureCaught ==
  /\ ~avatarDraw.propagated
  /\ avatarDraw.failed => avatarDraw.painted = "glow"

(***************************************************************************)
(* The pulse-trace variant (type "particles").  The buffer is held as its   *)
(* length and the samples written are not modelled, only where they are     *)
(* written; the amplitude of a pulse is left out.  One store is followed,   *)
(* driven either by the live canvas or by an export run.                    *)
(***************************************************************************)
PatternLen == 66     \* pulsePattern.length
EcgSpeed == 5        \* const speed = 5: scan steps per tick
LiveCooldown == 12   \* timeRef.current - state.lastBeat > 12
ExportCooldown == 2  \* time - ecgState.lastBeat > 0.2, in units of 0.1 s
BassThreshold == 500 \* bassEnergy > 0.5, in thousandths

Widths == 1 .. MaxWidth
BassLevels == {BassThreshold, 1000}

Triggered_AnyTime(st, bass, time, cooldown) ==
  IF bass > BassThreshold /\ time - st.lastBeat > cooldown
  THEN [st EXCEPT !.pulseIndex = 0, !.lastBeat = time]
  ELSE st

\* the trigger: a pulse starts and lastBeat is set
Triggered(st, bass, time, cooldown) ==
  IF bass > BassThreshold /\ st.pulseIndex = -1 /\ time - st.lastBeat > cooldown
  THEN [st EXCEPT !.pulseIndex = 0, !.lastBeat = time]
  ELSE st

NextCursor_NoWrap(x, len) == x + 1

\* state.x = (state.x + 1) % Math.ceil(width)
NextCursor(x, len) == (x + 1) % len

\* one pass of the scan loop: move the cursor, take a template sample or
\* return to idle, write at the cursor; sw is <<state, indices written>>
ScanStep(sw, len) ==
  LET st == sw[1]
      x == NextCursor(st.x, len)
      pulse == IF st.pulseIndex >= 0
               THEN IF st.pulseIndex < PatternLen THEN st.pulseIndex + 1 ELSE -1
               ELSE st.pulseIndex
  IN  <<[st EXCEPT !.x = x, !.pulseIndex = pulse], Append(sw[2], x)>>

RECURSIVE Scan(_, _, _)
Scan(sw, len, n) == IF n = 0 THEN sw ELSE Scan(ScanStep(sw, len), len, n - 1)

\* one tick of the live renderer: the buffer is reallocated if its length is
\* not the width, the state is kept
EcgLiveTick(width, bass) ==
  /\ ecgDriver \in {"none", "live"}
  /\ ecgTime < MaxEcgTime
  /\ LET time == ecgTime + 1
         sw == Scan(<<Triggered(ecgState, bass, time, LiveCooldown), <<>>>>, width, EcgSpeed)
     IN  /\ ecgDriver' = "live"
         /\ ecgTime' = time
         /\ ecgBuffer' = width
         /\ ecgState' = sw[1]
         /\ ecgTick' = [width |-> width, bass |-> bass, lenBefore |-> ecgBuffer,
                        xBefore |-> ecgState.x, writes |-> sw[2]]
  /\ UNCHANGED <<vars, burstVars, vortexVars, safeVars, storeVars, replayVars, liveVars, variantVars, avatarVars>>

\* one tick of the export renderer, dt after the tick before: the width is
\* that of the export canvas, fixed for the run; a reallocation of the
\* buffer resets the state
EcgExportTick(width, bass, dt) ==
  /\ ecgDriver \in {"none", "export"}
  /\ ecgDriver = "export" => width = ecgTick.width
  /\ ecgTime + dt <= MaxEcgTime
  /\ LET time == ecgTime + dt
         st == IF ecgBuffer # width
               THEN [x |-> 0, lastBeat |-> 0, pulseIndex |-> -1]
               ELSE ecgState
         sw == Scan(<<Triggered(st, bass, time, ExportCooldown), <<>>>>, width, EcgSpeed)
     IN  /\ ecgDriver' = "export"
         /\ ecgTime' = time
         /\ ecgBuffer' = width
         /\ ecgState' = sw[1]
         /\ ecgTick' = [width |-> width, bass |-> bass, lenBefore |-> ecgBuffer,
                        xBefore |-> ecgState.x, writes |-> sw[2]]
  /\ UNCHANGED <<vars, burstVars, vortexVars, safeVars, storeVars, replayVars, liveVars, variantVars, avatarVars>>

NextEcg ==
  \/ \E width \in Widths, bass \in BassLevels : EcgLiveTick(width, bass)
  \/ \E width \in Widths, bass \in BassLevels, dt \in 1 .. MaxDelay :
       EcgExportTick(width, bass, dt)

SpecEcg == Init /\ [][NextEcg]_allVars

\* C25: a pulse starts only on a tick that finds the pulse idle, with bass
\* energy above 0.5 and more than the cooldown (12 ticks live, 0.2 s export)
\* since the last trigger; a pulse in progress advances by one template
\* sample per scan step up to the end of the template and then goes idle,
\* and is not restarted before that.
C25_PulseLifecycle ==
  [][ ecgTime' # ecgTime =>
        LET p == ecgState.pulseIndex
            q == ecgState'.pulseIndex
            cooldown == IF ecgDriver' = "live" THEN LiveCooldown ELSE ExportCooldown
        IN  /\ (p = -1 /\ q # -1) =>
                 /\ ecgTick'.bass > BassThreshold
                 /\ ecgTime' - ecgState.lastBeat > cooldown
                 /\ q = EcgSpeed
                 /\ ecgState'.lastBeat = ecgTime'
            /\ p >= 0 =>
                 /\ q = (IF p + EcgSpeed <= PatternLen THEN p + EcgSpeed ELSE -1)
                 /\ ecgState'.lastBeat = ecgState.lastBeat
            /\ (p = -1 /\ q = -1) => ecgState'.lastBeat = ecgState.lastBeat ]_allVars

\* C25 witness: a pulse was started and has run through the template back to idle
C25_Witness ==
  /\ ecgState.lastBeat > 0
  /\ ecgState.pulseIndex = -1
  /\ ecgTime - ecgState.lastBeat > LiveCooldown

\* C26: after every pulse-trace tick the buffer is as long as the surface is
\* wide, the cursor stands 5 positions, modulo that length, after where it
\* stood, and each of the 5 writes went to an index inside the buffer.
C26_CursorAndBuffer ==
  ecgDriver # "none" =>
    /\ ecgBuffer = ecgTick.width
    /\ ecgState.x = (ecgTick.xBefore + EcgSpeed) % ecgBuffer
    /\ Len(ecgTick.writes) = EcgSpeed
    /\ \A i \in 1 .. Len(ecgTick.writes) :
         ecgTick.writes[i] >= 0 /\ ecgTick.writes[i] < ecgBuffer

\* C26 witness: the first tick after the width shrank below the cursor
C26_Witness ==
  /\ ecgDriver = "live"
  /\ ecgTick.lenBefore > ecgTick.width
  /\ ecgTick.xBefore >= ecgTick.width

(***************************************************************************)
(* The tunnel (vortex) variant: the spring that drives the core zoom.       *)
(* Zoom and velocity are fixed-point numbers; a product is truncated        *)
(* towards zero.  Bass energy is in thousandths.                            *)
(***************************************************************************)
RushThreshold == 750   \* const rushThreshold = 0.75, in thousandths
Stiffness == 20        \* const stiffness = 0.2, in hundredths
Damping == 82          \* const damping = 0.82, in hundredths

ZoomMin == 0 - (2 * ZoomUnits) \div 10
ZoomMax == 2 * ZoomUnits

\* a / b truncated towards zero, for b > 0
Quot(a, b) == IF a >= 0 THEN a \div b ELSE 0 - ((0 - a) \div b)

\* (bassEnergy - rushThreshold) * 0.5
Impulse(bass) == IF bass > RushThreshold THEN Quot((bass - RushThreshold) * ZoomUnits, 2000) ELSE 0

ClampZoom_None(z) == z

\* Math.max(-0.2, Math.min(2.0, coreZoom))
ClampZoom(z) == Max(ZoomMin, Min(ZoomMax, z))

VortexBass == {0, RushThreshold, 1000}

\* one tick of the tunnel variant, live or export
VortexTick(bass) ==
  LET v1 == coreVelocity + Impulse(bass)
      v2 == v1 + Quot((0 - coreZoom) * Stiffness, 100)
      v3 == Quot(v2 * Damping, 100)
  IN  /\ coreVelocity' = v3
      /\ coreZoom' = ClampZoom(coreZoom + v3)
  /\ UNCHANGED <<vars, burstVars, safeVars, storeVars, replayVars, liveVars, variantVars, avatarVars,
                 ecgVars>>

NextVortex == \E bass \in VortexBass : VortexTick(bass)

SpecVortex == Init /\ [][NextVortex]_allVars

\* C27: after every tick of the tunnel variant the spring zoom lies in
\* [-0.2, 2.0], whatever the spectrum was and however many bass impulses
\* came in a row.
C27_ZoomInRange ==
  ZoomMin <= coreZoom /\ coreZoom <= ZoomMax

\* C27 witness: after bass impulses the spring has swung back below rest and
\* the zoom stands at the lower limit
C27_Witness ==
  coreZoom = ZoomMin /\ coreVelocity < 0

(***************************************************************************)
(* Cancelling while startExport is suspended.                               *)
(***************************************************************************)
\* the awaits of startExport that precede `new MediaRecorder`
BeforeEncoder == {"avatarWait", "playWait", "playAborted"}

\* run r was cancelled while startExport was suspended before the encoder existed
CancelledBeforeEncoder(r) == r \in cancelled /\ pc[r] \in BeforeEncoder /\ recState[r] = "none"

\* C28: when a run was cancelled while startExport was suspended at an await
\* before the encoder existed, the resumed startExport starts no encoder,
\* schedules no animate loop, does not leave playback running and does not
\* change the status.
C28_CancelledStartDoesNothing ==
  [][ \A r \in Runs :
        (CancelledBeforeEncoder(r) /\ pc'[r] # pc[r])
          => /\ recState'[r] # "recording"
             /\ ~animPending'[r]
             /\ audio' # "playing"
             /\ exportStatus' = exportStatus ]_vars

\* C29: in every reachable state isExporting is true exactly when the export
\* status is recording or processing.
C29_ExportingIffActiveStatus ==
  isExporting <=> exportStatus \in {"recording", "processing"}

(***************************************************************************)
(* The burst variant while the spectrum is quiet.                           *)
(***************************************************************************)
\* the byte of a flat spectrum whose average energy lies just below the floor
FloorByte == (triggerThreshold * 255) \div 1000

\* a flat spectrum just below the 0.22 floor, where a quiet tick ages the
\* particles least, and full scale
BurstSpectra ==
  {[i \in 1 .. DataLen |-> FloorByte], [i \in 1 .. DataLen |-> 255]}

\* avgEnergy > triggerThreshold, negated
Quiet(data) == avgEnergy(data) <= triggerThreshold

\* the longest life a burst gives a particle, and the least decay of a quiet tick
MaxLife == MinLife + 400
QuietDecay == 18 + ((1000 - triggerThreshold) * 25) \div 1000

\* quiet ticks after which a particle of any life has been aged to 0 or
\* below and then filtered out
QuietBound == (MaxLife + QuietDecay - 1) \div QuietDecay + 1

\* the analyser delivers a spectrum and the burst variant draws one frame of it
BurstTick(d, rnd) ==
  /\ ~Quiet(d) => quietRun.loud < MaxLoudTicks
  /\ analyserData' = d
  /\ liveState' = drawFireworks(liveState, d, rnd)
  /\ quietRun' = IF ~Quiet(d)
                 THEN [ticks |-> 0, hadParticles |-> FALSE, loud |-> quietRun.loud + 1]
                 ELSE [ticks |-> Min(quietRun.ticks + 1, QuietBound),
                       hadParticles |-> IF quietRun.ticks = 0
                                        THEN liveState.particles # <<>>
                                        ELSE quietRun.hadParticles,
                       loud |-> quietRun.loud]
  /\ UNCHANGED <<visualizerState, exportRuns, exportActive>>
  /\ UNCHANGED <<vars, safeVars, replayVars, liveVars, variantVars, avatarVars, ecgVars,
                 vortexVars>>

NextBurst == \E d \in BurstSpectra, rnd \in RandomDraws : BurstTick(d, rnd)

SpecBurst == Init /\ [][NextBurst]_allVars

====
